---- MODULE Spec2Model ----
(***************************************************************************)
(* Model of the GtkUI language server (src/src/main.rs): the two DashMaps  *)
(* document_map (uri -> Rope) and token_map (uri -> Vec<Token>), the       *)
(* notification handlers did_open / did_change / did_close, the request    *)
(* handlers semantic_tokens_full / semantic_tokens_range, and the shared   *)
(* Backend::on_change pipeline.  Handlers are async tasks that tower-lsp   *)
(* runs concurrently; a handler is atomic between two of its .await        *)
(* points and the model has one action per such segment.                   *)
(***************************************************************************)
EXTENDS Integers, Sequences, FiniteSets, Bags, TLC

VARIABLES
    document_map,   \* Backend.document_map : uri -> Option<Rope>
    token_map,      \* Backend.token_map    : uri -> Option<Vec<Token>>
    tasks,          \* bag of handler futures suspended at an .await
    status,         \* client side of the protocol: "new", "open" or "closed" per uri
    edits,          \* number of didOpen/didChange/didClose notifications accepted
    seen,           \* history: every text document_map ever held, per uri
    hist,           \* history: last full response per uri since the last edit step
    resp,           \* the response sent by the step just taken; NoResp if none
    shards,         \* DashMap: the shard (one RwLock each) a uri hashes to
    twin            \* a second run fed the same events with other versions

vars == <<document_map, token_map, tasks, status, edits, seen, hist, resp, shards, twin>>

----------------------------------------------------------------------------
(* Bounds of the model.                                                    *)

\* number of didOpen/didChange/didClose notifications in one run
MaxEdits == 3
\* number of handler futures suspended at the same time
MaxTasks == 2

----------------------------------------------------------------------------
(* Texts.  A text is a sequence of characters; every character is one byte *)
(* wide except the two-byte character TwoByte ("e" with acute accent).     *)
(* The state holds a text by its name; Chars gives its characters.         *)

TwoByte == "U+E9"

Width(c) == IF c = TwoByte THEN 2 ELSE 1

\* "true\n42 \"s\"", the scenario of the specification
ScenarioText == <<"t", "r", "u", "e", "\n", "4", "2", " ", "\"", "s", "\"">>
\* a quoted two-byte character, 4, an open brace and 2 on the first line, 2
\* in column 6 of the second line, 4 in column 0 of the third: a multi-byte
\* character, a token without legend entry between two tokens with one, two
\* tokens behind another on their line, a token on a new line right of its
\* predecessor and one left of it
MixedText ==
    <<"\"", TwoByte, "\"", "4", "{", "2", "\n",
      " ", " ", " ", " ", " ", " ", "2", "\n", "4">>
\* an open brace and a dollar sign: the tokenizer fails at the dollar sign
\* after it has produced one token
FailText == <<"{", "$">>

Texts == {"scenario", "mixed", "fail"}

Chars(text) ==
    CASE text = "scenario" -> ScenarioText
      [] text = "mixed"    -> MixedText
      [] text = "fail"     -> FailText

Uris == {"a", "b"}

\* the byte spans a range request may carry
Spans == {<<0, 4>>, <<20, 30>>}

\* Option<T>: None is the empty sequence, Some(x) the one-element sequence
None == <<>>
Some(x) == <<x>>

----------------------------------------------------------------------------
(* ropey::Rope, as far as the handlers use it.                             *)

RECURSIVE len_bytes(_)
len_bytes(rope) ==
    IF rope = <<>> THEN 0 ELSE Width(Head(rope)) + len_bytes(Tail(rope))

\* number of characters that end at or before byte offset b
RECURSIVE CharsBefore(_, _)
CharsBefore(rope, b) ==
    IF rope = <<>> \/ Width(Head(rope)) > b
    THEN 0
    ELSE 1 + CharsBefore(Tail(rope), b - Width(Head(rope)))

\* number of line breaks among the first n characters
RECURSIVE BreaksIn(_, _)
BreaksIn(rope, n) ==
    IF n = 0 \/ rope = <<>>
    THEN 0
    ELSE (IF Head(rope) = "\n" THEN 1 ELSE 0) + BreaksIn(Tail(rope), n - 1)

len_lines(rope) == BreaksIn(rope, Len(rope)) + 1

Ok(v) == [ok |-> TRUE, v |-> v]
Err == [ok |-> FALSE, v |-> 0]

\* Rope::try_byte_to_char: the char the byte belongs to; len_chars at the end
try_byte_to_char(rope, byte_idx) ==
    IF byte_idx > len_bytes(rope) THEN Err ELSE Ok(CharsBefore(rope, byte_idx))

\* Rope::try_byte_to_line: the line the byte is on; the last line at the end
try_byte_to_line(rope, byte_idx) ==
    IF byte_idx > len_bytes(rope)
    THEN Err
    ELSE Ok(BreaksIn(rope, CharsBefore(rope, byte_idx)))

\* index of the first char after the line_idx-th line break
RECURSIVE LineStart(_, _, _)
LineStart(rope, line_idx, at) ==
    IF line_idx = 0 THEN at
    ELSE IF rope = <<>> THEN at
    ELSE LineStart(Tail(rope),
                   IF Head(rope) = "\n" THEN line_idx - 1 ELSE line_idx,
                   at + 1)

\* Rope::try_line_to_char: char index of the line start; len_chars one past the end
try_line_to_char(rope, line_idx) ==
    IF line_idx > len_lines(rope) THEN Err ELSE Ok(LineStart(rope, line_idx, 0))

----------------------------------------------------------------------------
(* gtk_ui::lexer, the external tokenizer: text -> classified byte ranges,  *)
(* fallible.  lex() pushes tokens in source order as it scans and stops at *)
(* the first character it cannot classify, leaving the tokens pushed so    *)
(* far in lexer.tokens.                                                    *)

Digits == {"4", "2"}
Letters == {"t", "r", "u", "e", "s"}
Blanks == {" ", "\n"}

Token(value, start, end) == [value |-> value, range |-> [start |-> start, end |-> end]]

\* first index >= i whose character is not in class; Len + 1 if there is none
RECURSIVE RunEnd(_, _, _)
RunEnd(input, i, class) ==
    IF i > Len(input) \/ input[i] \notin class THEN i ELSE RunEnd(input, i + 1, class)

\* first index >= i holding a quote; 0 if there is none
RECURSIVE QuoteAt(_, _)
QuoteAt(input, i) ==
    IF i > Len(input) THEN 0
    ELSE IF input[i] = "\"" THEN i
    ELSE QuoteAt(input, i + 1)

RECURSIVE LexFrom(_, _, _, _)
LexFrom(input, i, byte, tokens) ==
    IF i > Len(input) THEN [ok |-> TRUE, tokens |-> tokens]
    ELSE LET c == input[i] IN
         IF c \in Blanks THEN LexFrom(input, i + 1, byte + 1, tokens)
         ELSE IF c \in Digits THEN
              LET j == RunEnd(input, i, Digits) IN
              LexFrom(input, j, byte + (j - i),
                      Append(tokens, Token("Number", byte, byte + (j - i))))
         ELSE IF c \in Letters THEN
              LET j == RunEnd(input, i, Letters)
                  word == SubSeq(input, i, j - 1)
                  value == IF word = <<"t", "r", "u", "e">> THEN "Bool" ELSE "Identifier"
              IN LexFrom(input, j, byte + (j - i),
                         Append(tokens, Token(value, byte, byte + (j - i))))
         ELSE IF c = "\"" THEN
              LET k == QuoteAt(input, i + 1) IN
              IF k = 0 THEN [ok |-> FALSE, tokens |-> tokens]
              ELSE LET w == len_bytes(SubSeq(input, i, k)) IN
                   LexFrom(input, k + 1, byte + w,
                           Append(tokens, Token("String", byte, byte + w)))
         ELSE IF c = "{" THEN
              LexFrom(input, i + 1, byte + 1,
                      Append(tokens, Token("OpenBrace", byte, byte + 1)))
         ELSE [ok |-> FALSE, tokens |-> tokens]

\* the tokenizer is a pure function of the text: its outcome for each text of
\* the model, computed once
LexOfText == {<<text, LexFrom(Chars(text), 1, 0, <<>>)>> : text \in Texts}

\* Lexer::new(text) followed by lexer.lex(true): the Result and lexer.tokens
Lex(text) == (CHOOSE e \in LexOfText : e[1] = text)[2]

----------------------------------------------------------------------------
(* The legend.                                                             *)

LEGEND_TYPE ==
    <<"COMMENT", "NUMBER", "STRING", "MACRO", "METHOD",
      "KEYWORD", "TYPE", "CLASS", "OPERATOR">>

\* LEGEND_TYPE.iter().position(|item| item == ty).unwrap() as u32
LegendPosition(ty) == (CHOOSE i \in 1..Len(LEGEND_TYPE) : LEGEND_TYPE[i] = ty) - 1

to_legend_type(token) ==
    CASE token.value = "Bool"       -> Some(LegendPosition("KEYWORD"))
      [] token.value = "Number"     -> Some(LegendPosition("NUMBER"))
      [] token.value = "Setter"     -> Some(LegendPosition("METHOD"))
      [] token.value = "String"     -> Some(LegendPosition("STRING"))
      [] token.value = "Directive"  -> Some(LegendPosition("MACRO"))
      [] token.value = "Definition" -> Some(LegendPosition("CLASS"))
      [] token.value = "Inherits"   -> Some(LegendPosition("OPERATOR"))
      [] OTHER                      -> None

----------------------------------------------------------------------------
(* The two encoders.  A u32 subtraction that goes below zero panics in a   *)
(* build with overflow checks and wraps to 2^32 + d otherwise; the model   *)
(* keeps the difference d (negative then) and raises the underflow flag of *)
(* the encoding.                                                           *)

SemanticToken(delta_line, delta_start, length, token_type) ==
    [delta_line |-> delta_line, delta_start |-> delta_start, length |-> length,
     token_modifiers_bitset |-> 0, token_type |-> token_type]

\* insertion of t into a list sorted by range.start, after every element that
\* does not compare greater (the sort is stable)
RECURSIVE InsertByStart(_, _)
InsertByStart(sorted, t) ==
    IF sorted = <<>> THEN <<t>>
    ELSE IF Head(sorted).range.start > t.range.start THEN <<t>> \o sorted
    ELSE <<Head(sorted)>> \o InsertByStart(Tail(sorted), t)

\* mutant of sort_by_start: the comparison reversed, b.range.start.cmp(&a.range.start)
RECURSIVE InsertByStartDesc(_, _)
InsertByStartDesc(sorted, t) ==
    IF sorted = <<>> THEN <<t>>
    ELSE IF Head(sorted).range.start < t.range.start THEN <<t>> \o sorted
    ELSE <<Head(sorted)>> \o InsertByStartDesc(Tail(sorted), t)

RECURSIVE sort_by_start_reversed(_)
sort_by_start_reversed(tokens) ==
    IF tokens = <<>> THEN <<>>
    ELSE InsertByStartDesc(sort_by_start_reversed(SubSeq(tokens, 1, Len(tokens) - 1)),
                           tokens[Len(tokens)])

\* im_complete_tokens.sort_by(|a, b| a.range.start.cmp(&b.range.start))
RECURSIVE sort_by_start(_)
sort_by_start(tokens) ==
    IF tokens = <<>> THEN <<>>
    ELSE InsertByStart(sort_by_start(SubSeq(tokens, 1, Len(tokens) - 1)),
                       tokens[Len(tokens)])

\* mutant of FullDeltaStart: relative to the previous column on every line
FullDeltaStart_always_relative(delta_line, start, pre_start) == start - pre_start

\* mutant of FullDeltaStart: the column itself on every line
FullDeltaStart_absolute(delta_line, start, pre_start) == start

\* delta_start of the full encoder
FullDeltaStart(delta_line, start, pre_start) ==
    IF delta_line = 0 THEN start - pre_start ELSE start

\* mutant of RangeDeltaStart: the column itself, whatever the previous column
RangeDeltaStart_absolute(start, pre_start) == start

\* delta_start of the range encoder
RangeDeltaStart(start, pre_start) ==
    IF start >= pre_start THEN start - pre_start ELSE start

\* mutant of FullFold: pre_line and pre_start are assigned before the legend
\* lookup, so a token without legend entry moves the cursor
RECURSIVE FullFold_cursor_on_drop(_, _, _, _, _, _)
FullFold_cursor_on_drop(tokens, rope, i, pre_line, pre_start, acc) ==
    IF i > Len(tokens) THEN acc
    ELSE
      LET token == tokens[i]
          line  == try_byte_to_line(rope, token.range.start)
          first == try_line_to_char(rope, line.v)
          char  == try_byte_to_char(rope, token.range.start)
      IN
      IF ~line.ok \/ ~first.ok \/ ~char.ok
      THEN FullFold_cursor_on_drop(tokens, rope, i + 1, pre_line, pre_start, acc)
      ELSE
        LET start       == char.v - first.v
            delta_line  == line.v - pre_line
            delta_start == IF delta_line = 0 THEN start - pre_start ELSE start
            token_type  == to_legend_type(token)
            under       == start < 0 \/ delta_line < 0 \/ delta_start < 0
        IN
        FullFold_cursor_on_drop(tokens, rope, i + 1, line.v, start,
            [data |-> IF token_type # None
                      THEN Append(acc.data,
                               SemanticToken(delta_line, delta_start,
                                   token.range.end - token.range.start,
                                   token_type[1]))
                      ELSE acc.data,
             underflow |-> acc.underflow \/ under])

\* the filter_map closure of semantic_tokens_full, folded over tokens[i..]
RECURSIVE FullFold(_, _, _, _, _, _)
FullFold(tokens, rope, i, pre_line, pre_start, acc) ==
    IF i > Len(tokens) THEN acc
    ELSE
      LET token == tokens[i]
          line  == try_byte_to_line(rope, token.range.start)
          first == try_line_to_char(rope, line.v)
          char  == try_byte_to_char(rope, token.range.start)
      IN
      IF ~line.ok \/ ~first.ok \/ ~char.ok
      THEN FullFold(tokens, rope, i + 1, pre_line, pre_start, acc)
      ELSE
        LET start       == char.v - first.v
            delta_line  == line.v - pre_line
            delta_start == FullDeltaStart(delta_line, start, pre_start)
            token_type  == to_legend_type(token)
            under       == start < 0 \/ delta_line < 0 \/ delta_start < 0
        IN
        IF token_type # None
        THEN FullFold(tokens, rope, i + 1, line.v, start,
                 [data |-> Append(acc.data,
                              SemanticToken(delta_line, delta_start,
                                  token.range.end - token.range.start,
                                  token_type[1])),
                  underflow |-> acc.underflow \/ under
                                  \/ token.range.end < token.range.start])
        ELSE FullFold(tokens, rope, i + 1, pre_line, pre_start,
                 [data |-> acc.data, underflow |-> acc.underflow \/ under])

\* the filter_map closure of semantic_tokens_range, folded over tokens[i..]
RECURSIVE RangeFold(_, _, _, _, _, _)
RangeFold(tokens, rope, i, pre_line, pre_start, acc) ==
    IF i > Len(tokens) THEN acc
    ELSE
      LET token == tokens[i]
          line  == try_byte_to_line(rope, token.range.start)
          first == try_line_to_char(rope, line.v)
          char  == try_byte_to_char(rope, token.range.start)
      IN
      IF ~line.ok \/ ~first.ok \/ ~char.ok
      THEN RangeFold(tokens, rope, i + 1, pre_line, pre_start, acc)
      ELSE
        LET start      == char.v - first.v
            token_type == to_legend_type(token)
        IN
        IF token_type # None
        THEN RangeFold(tokens, rope, i + 1, line.v, start,
                 [data |-> Append(acc.data,
                              SemanticToken(line.v - pre_line,
                                  RangeDeltaStart(start, pre_start),
                                  token.range.end - token.range.start,
                                  token_type[1])),
                  underflow |-> acc.underflow \/ start < 0 \/ line.v < pre_line
                                  \/ token.range.end < token.range.start])
        ELSE RangeFold(tokens, rope, i + 1, pre_line, pre_start,
                 [data |-> acc.data, underflow |-> acc.underflow \/ start < 0])

NoTokens == [data |-> <<>>, underflow |-> FALSE]

\* the token lists the tokenizer produces for the texts of the model
TokenLists == {e[2].tokens : e \in LexOfText}

\* both encodings are pure functions of the token list and the rope: their
\* values on the token lists and texts of the model, computed once
FullOfPair ==
    {<<p[1], p[2], FullFold(p[1], Chars(p[2]), 1, 0, 0, NoTokens)>> :
        p \in {sort_by_start(l) : l \in TokenLists} \X Texts}

RangeOfPair ==
    {<<p[1], p[2], RangeFold(p[1], Chars(p[2]), 1, 0, 0, NoTokens)>> :
        p \in TokenLists \X Texts}

\* the encoding semantic_tokens_full computes from the sorted tokens
full_encode(sorted, rope) ==
    IF \E e \in FullOfPair : e[1] = sorted /\ e[2] = rope
    THEN (CHOOSE e \in FullOfPair : e[1] = sorted /\ e[2] = rope)[3]
    ELSE FullFold(sorted, Chars(rope), 1, 0, 0, NoTokens)

\* the encoding semantic_tokens_range computes from the tokens as cached
range_encode(tokens, rope) ==
    IF \E e \in RangeOfPair : e[1] = tokens /\ e[2] = rope
    THEN (CHOOSE e \in RangeOfPair : e[1] = tokens /\ e[2] = rope)[3]
    ELSE RangeFold(tokens, Chars(rope), 1, 0, 0, NoTokens)

\* mutant of full_closure: token_map.remove(&uri)? in place of get_mut
full_closure_remove(tm, dm, uri) ==
    IF tm[uri] = None \/ dm[uri] = None
    THEN [result |-> None, token_map |-> tm]
    ELSE LET sorted == sort_by_start(tm[uri][1]) IN
         [result    |-> Some(full_encode(sorted, dm[uri][1])),
          token_map |-> [tm EXCEPT ![uri] = None]]

\* mutant of full_closure: the sorted list is cut down to the tokens with a
\* legend entry (retain) before it is encoded
full_closure_retain(tm, dm, uri) ==
    IF tm[uri] = None \/ dm[uri] = None
    THEN [result |-> None, token_map |-> tm]
    ELSE LET sorted == sort_by_start(tm[uri][1]) IN
         [result    |-> Some(full_encode(sorted, dm[uri][1])),
          token_map |-> [tm EXCEPT ![uri] =
                            Some(SelectSeq(sorted, LAMBDA t : to_legend_type(t) # None))]]

\* The closure of semantic_tokens_full: token_map.get_mut(&uri)?, then
\* document_map.get(&uri)?, the in-place sort, the encoding.  Yields the
\* Option the closure returns and the token_map it leaves.
full_closure(tm, dm, uri) ==
    IF tm[uri] = None \/ dm[uri] = None
    THEN [result |-> None, token_map |-> tm]
    ELSE LET sorted == sort_by_start(tm[uri][1]) IN
         [result    |-> Some(full_encode(sorted, dm[uri][1])),
          token_map |-> [tm EXCEPT ![uri] = Some(sorted)]]

\* mutant of range_closure: a missing token_map entry is encoded as an empty
\* token list (unwrap_or_default in place of ?)
range_closure_default(tm, dm, uri, span) ==
    IF dm[uri] = None
    THEN None
    ELSE IF tm[uri] = None THEN Some(NoTokens)
    ELSE Some(range_encode(tm[uri][1], dm[uri][1]))

\* The closure of semantic_tokens_range: token_map.get(&uri)?, then
\* document_map.get(&uri)?, the encoding of every cached token; params.range
\* is not read.
range_closure(tm, dm, uri, span) ==
    IF tm[uri] = None \/ dm[uri] = None
    THEN None
    ELSE Some(range_encode(tm[uri][1], dm[uri][1]))

\* mutant of on_change_insert_text: document_map.entry(uri).or_insert(rope),
\* which keeps the rope of an entry that exists
on_change_insert_text_or_insert(dm, uri, text) ==
    IF dm[uri] = None THEN [dm EXCEPT ![uri] = Some(text)] ELSE dm

\* on_change, up to its .await: document_map.insert(uri, rope)
on_change_insert_text(dm, uri, text) == [dm EXCEPT ![uri] = Some(text)]

\* mutant of on_change_insert_tokens: token_map.clear() before the insert
on_change_insert_tokens_clear(tm, uri, lexer) ==
    [u \in DOMAIN tm |-> IF u = uri THEN Some(lexer.tokens) ELSE None]

\* on_change, after its .await: token_map.insert(uri, lexer.tokens.clone()),
\* whatever lexer.lex returned
on_change_insert_tokens(tm, uri, lexer) == [tm EXCEPT ![uri] = Some(lexer.tokens)]

\* did_close is not overridden by Backend: the trait's default handler runs,
\* which touches neither map
did_close_maps(dm, tm, uri) == [document_map |-> dm, token_map |-> tm]

----------------------------------------------------------------------------
(* The state machine.                                                      *)

Task(pc, uri, text) == [pc |-> pc, uri |-> uri, text |-> text]

One(t) == SetToBag({t})

\* no open or change handler for uri is suspended
Quiet(uri) ==
    \A t \in BagToSet(tasks) : t.uri = uri => t.pc \notin {"open_log", "lex_log"}

\* seen after a step: the texts document_map holds after it are added
SeenAfter(dm) ==
    [u \in Uris |-> seen[u] \cup {dm[u][i] : i \in 1..Len(dm[u])}]

NoHist == [set |-> FALSE, result |-> None, changes |-> 0, q |-> FALSE]

NoResp ==
    [kind |-> "none", uri |-> "a", span |-> <<0, 0>>, result |-> None,
     rope |-> None, tokens |-> None, prev |-> NoHist, quiet |-> TRUE]

\* hist[uri] after a handler segment of an edit of uri has run.  The record of a
\* full response taken when no edit was in flight survives a change that
\* carries the text already stored (counted in changes); any other edit
\* segment erases it.
HistAfterStart(uri, identical) ==
    IF hist[uri].set /\ hist[uri].q /\ identical /\ Quiet(uri)
    THEN [hist EXCEPT ![uri].changes = @ + 1]
    ELSE [hist EXCEPT ![uri] = NoHist]

HistAfterStep(uri) ==
    IF hist[uri].set /\ hist[uri].q THEN hist ELSE [hist EXCEPT ![uri] = NoHist]

\* the second run before any event: its two maps and the result of its last
\* response; versions records, for the first run, the highest version an
\* event of the uri carried and the versions of the events that wrote the
\* document_map entry and the token_map entry
NoTwin ==
    [document_map |-> [u \in Uris |-> None], token_map |-> [u \in Uris |-> None],
     result |-> None,
     versions |-> [u \in Uris |-> [high |-> 0, text |-> 0, tokens |-> 0]]]

Init ==
    /\ document_map = [u \in Uris |-> None]
    /\ token_map = [u \in Uris |-> None]
    /\ tasks = EmptyBag
    /\ status = [u \in Uris |-> "new"]
    /\ edits = 0
    /\ seen = [u \in Uris |-> {}]
    /\ hist = [u \in Uris |-> NoHist]
    /\ resp = NoResp
    /\ shards = [u \in Uris |-> 0]
    /\ twin = NoTwin

\* textDocument/didOpen arrives: did_open runs up to its log_message(..).await
did_open(uri, text) ==
    /\ status[uri] # "open"
    /\ edits < MaxEdits
    /\ BagCardinality(tasks) < MaxTasks
    /\ tasks' = tasks (+) One(Task("open_log", uri, text))
    /\ status' = [status EXCEPT ![uri] = "open"]
    /\ edits' = edits + 1
    /\ hist' = [hist EXCEPT ![uri] = NoHist]
    /\ resp' = NoResp
    /\ UNCHANGED <<document_map, token_map, seen>>
    /\ UNCHANGED <<shards, twin>>

\* did_open resumes and calls on_change, which runs up to its .await
did_open_resume(t) ==
    /\ t \in BagToSet(tasks)
    /\ t.pc = "open_log"
    /\ document_map' = on_change_insert_text(document_map, t.uri, t.text)
    /\ seen' = SeenAfter(document_map')
    /\ tasks' = (tasks (-) One(t)) (+) One(Task("lex_log", t.uri, t.text))
    /\ hist' = [hist EXCEPT ![t.uri] = NoHist]
    /\ resp' = NoResp
    /\ UNCHANGED <<token_map, status, edits>>
    /\ UNCHANGED <<shards, twin>>

\* textDocument/didChange arrives: did_change calls on_change, which runs up to
\* its .await
did_change(uri, text) ==
    /\ status[uri] = "open"
    /\ edits < MaxEdits
    /\ BagCardinality(tasks) < MaxTasks
    /\ document_map' = on_change_insert_text(document_map, uri, text)
    /\ seen' = SeenAfter(document_map')
    /\ tasks' = tasks (+) One(Task("lex_log", uri, text))
    /\ edits' = edits + 1
    /\ hist' = HistAfterStart(uri, document_map[uri] = Some(text))
    /\ resp' = NoResp
    /\ UNCHANGED <<token_map, status>>
    /\ UNCHANGED <<shards, twin>>

\* on_change resumes after log_message(..).await and stores lexer.tokens
on_change_resume(t) ==
    /\ t \in BagToSet(tasks)
    /\ t.pc = "lex_log"
    /\ token_map' = on_change_insert_tokens(token_map, t.uri, Lex(t.text))
    /\ tasks' = tasks (-) One(t)
    /\ hist' = HistAfterStep(t.uri)
    /\ resp' = NoResp
    /\ UNCHANGED <<document_map, status, edits, seen>>
    /\ UNCHANGED <<shards, twin>>

\* textDocument/didClose arrives
did_close(uri) ==
    /\ status[uri] = "open"
    /\ edits < MaxEdits
    /\ LET maps == did_close_maps(document_map, token_map, uri) IN
         /\ document_map' = maps.document_map
         /\ token_map' = maps.token_map
    /\ status' = [status EXCEPT ![uri] = "closed"]
    /\ edits' = edits + 1
    /\ hist' = [hist EXCEPT ![uri] = NoHist]
    /\ resp' = NoResp
    /\ UNCHANGED <<tasks, seen>>
    /\ UNCHANGED <<shards, twin>>

\* textDocument/semanticTokens/full arrives: the handler runs up to its
\* log_message(..).await
semantic_tokens_full(uri) ==
    /\ BagCardinality(tasks) < MaxTasks
    /\ tasks' = tasks (+) One(Task("full_log", uri, ""))
    /\ resp' = NoResp
    /\ UNCHANGED <<document_map, token_map, status, edits, seen, hist>>
    /\ UNCHANGED <<shards, twin>>

\* semantic_tokens_full resumes: the closure runs and the response is sent
semantic_tokens_full_resume(t) ==
    /\ t \in BagToSet(tasks)
    /\ t.pc = "full_log"
    /\ LET out == full_closure(token_map, document_map, t.uri) IN
         /\ token_map' = out.token_map
         /\ resp' = [kind |-> "full", uri |-> t.uri, span |-> <<0, 0>>,
                     result |-> out.result,
                     rope |-> document_map[t.uri], tokens |-> token_map[t.uri],
                     prev |-> hist[t.uri], quiet |-> Quiet(t.uri)]
         /\ hist' = [hist EXCEPT ![t.uri] =
                       [set |-> TRUE, result |-> out.result, changes |-> 0,
                        q |-> Quiet(t.uri)]]
    /\ tasks' = tasks (-) One(t)
    /\ UNCHANGED <<document_map, status, edits, seen>>
    /\ UNCHANGED <<shards, twin>>

\* textDocument/semanticTokens/range: the handler has no .await
semantic_tokens_range(uri, span) ==
    /\ resp' = [kind |-> "range", uri |-> uri, span |-> span,
                result |-> range_closure(token_map, document_map, uri, span),
                rope |-> document_map[uri], tokens |-> token_map[uri],
                prev |-> NoHist, quiet |-> Quiet(uri)]
    /\ UNCHANGED <<document_map, token_map, tasks, status, edits, seen, hist>>
    /\ UNCHANGED <<shards, twin>>

Next ==
    \/ \E uri \in Uris, text \in Texts : did_open(uri, text)
    \/ \E t \in BagToSet(tasks) : did_open_resume(t)
    \/ \E uri \in Uris, text \in Texts : did_change(uri, text)
    \/ \E t \in BagToSet(tasks) : on_change_resume(t)
    \/ \E uri \in Uris : did_close(uri)
    \/ \E uri \in Uris : semantic_tokens_full(uri)
    \/ \E t \in BagToSet(tasks) : semantic_tokens_full_resume(t)
    \/ \E uri \in Uris, span \in Spans : semantic_tokens_range(uri, span)

Spec == Init /\ [][Next]_vars

TypeOK ==
    /\ \A u \in Uris : document_map[u] = None \/ document_map[u][1] \in Texts
    /\ BagCardinality(tasks) <= MaxTasks
    /\ edits <= MaxEdits

----------------------------------------------------------------------------
(* What the specification says a position is, stated without the rope's    *)
(* operations: the line of a byte offset is the number of line breaks that *)
(* end at or before it, its column the number of characters that end at or *)
(* before it and follow the last such line break.                          *)

EndByte(chars, i) == len_bytes(SubSeq(chars, 1, i))

Before(chars, b) == {i \in 1..Len(chars) : EndByte(chars, i) <= b}

Resolves(chars, b) == b <= len_bytes(chars)

PosLine(chars, b) == Cardinality({i \in Before(chars, b) : chars[i] = "\n"})

PosCol(chars, b) ==
    Cardinality({i \in Before(chars, b) :
                    \A j \in Before(chars, b) : j >= i => chars[j] # "\n"})

\* the position of every byte offset of every text of the model, computed once
PositionOf ==
    UNION {{<<text, b, PosLine(Chars(text), b), PosCol(Chars(text), b)>> :
               b \in 0..len_bytes(Chars(text))} : text \in Texts}

LineOf(text, b) == (CHOOSE e \in PositionOf : e[1] = text /\ e[2] = b)[3]

ColOf(text, b) == (CHOOSE e \in PositionOf : e[1] = text /\ e[2] = b)[4]

HasLegend(token) ==
    token.value \in
        {"Bool", "Number", "Setter", "String", "Directive", "Definition", "Inherits"}

\* the tokens of a list that the full encoder keeps for a text, in order
Kept(tokens, chars) ==
    SelectSeq(tokens, LAMBDA t : Resolves(chars, t.range.start) /\ HasLegend(t))

\* Kept for the token lists and texts of the model, computed once
KeptOfPair ==
    {<<p[1], p[2], Kept(p[1], Chars(p[2]))>> :
        p \in (TokenLists \cup {sort_by_start(l) : l \in TokenLists}) \X Texts}

KeptOf(tokens, text) ==
    IF \E e \in KeptOfPair : e[1] = tokens /\ e[2] = text
    THEN (CHOOSE e \in KeptOfPair : e[1] = tokens /\ e[2] = text)[3]
    ELSE Kept(tokens, Chars(text))

InSpan(token, span) == span[1] <= token.range.start /\ token.range.end <= span[2]

NonOverlapping(tokens) ==
    \A i, j \in 1..Len(tokens) :
        i < j => (tokens[i].range.end <= tokens[j].range.start
                    \/ tokens[j].range.end <= tokens[i].range.start)

Wire(data) == [i \in 1..Len(data) |->
                  <<data[i].delta_line, data[i].delta_start, data[i].length>>]

\* a request was answered with both entries present
Answered(kind) ==
    resp.kind = kind /\ resp.rope # None /\ resp.tokens # None /\ resp.result # None

----------------------------------------------------------------------------
(* Claims.                                                                 *)

\* C1: when the tokenizer fails in an open or change event of a uri, the
\* token_map entry of the uri after the event is the entry it had before
\* (absent if it was absent).
C1_FailureKeepsTokens ==
    [][\A t \in BagToSet(tasks) :
          (on_change_resume(t) /\ ~Lex(t.text).ok)
              => token_map'[t.uri] = token_map[t.uri]]_vars

\* C2: after close(uri) and before a new open(uri), neither map has an entry
\* for uri and every full or range request for uri returns unavailable.
C2_CloseRemovesEntries ==
    /\ \A u \in Uris :
          status[u] = "closed" => document_map[u] = None /\ token_map[u] = None
    /\ (resp.kind # "none" /\ status[resp.uri] = "closed") => resp.result = None

\* C3: with both entries present a range request returns a sequence that has
\* entries only for cached tokens whose byte range lies inside the span, so
\* no more entries than there are such tokens and none when there is none.
C3_RangeRestrictsToSpan ==
    (resp.kind = "range" /\ resp.rope # None /\ resp.tokens # None)
        => /\ resp.result # None
           /\ Len(resp.result[1].data)
                 <= Cardinality({i \in 1..Len(resp.tokens[1]) :
                                    InSpan(resp.tokens[1][i], resp.span)})

\* C4: a full or range request returns unavailable exactly when document_map
\* or token_map has no entry for the uri; with both entries it returns a
\* sequence (no subtraction underflows on the way), possibly empty.
C4_UnavailableIffMissing ==
    resp.kind # "none"
        => /\ resp.result = None <=> (resp.rope = None \/ resp.tokens = None)
           /\ resp.result # None => ~resp.result[1].underflow

\* C4 witness: a full request answered in the window of an in-flight open or
\* change of the uri that has stored the text and not yet the tokens.
C4_Witness ==
    /\ resp.kind = "full"
    /\ resp.rope # None
    /\ resp.tokens = None
    /\ resp.result = None
    /\ ~resp.quiet

\* C5: a full request emits one entry per kept token, in order, with
\* delta_line = line - prevLine, delta_start = col - prevCol on the same line
\* and col otherwise, length = end - start, where (line, col) is the position
\* of the token's start and (prevLine, prevCol) that of the token kept before
\* it, (0, 0) for the first; the scenario text yields (0,0,4), (1,0,2), (0,3,3).
C5_FullDeltas ==
    Answered("full") =>
        LET kept  == KeptOf(token_map[resp.uri][1], resp.rope[1])
            data  == resp.result[1].data
            line(i) == IF i = 0 THEN 0 ELSE LineOf(resp.rope[1], kept[i].range.start)
            col(i)  == IF i = 0 THEN 0 ELSE ColOf(resp.rope[1], kept[i].range.start)
        IN
        /\ Len(data) = Len(kept)
        /\ \A i \in 1..Len(kept) :
              /\ data[i].delta_line = line(i) - line(i - 1)
              /\ data[i].delta_start =
                    IF data[i].delta_line = 0 THEN col(i) - col(i - 1) ELSE col(i)
              /\ data[i].length = kept[i].range.end - kept[i].range.start
        /\ (resp.rope = Some("scenario")
              /\ resp.tokens = Some(<<Token("Bool", 0, 4), Token("Number", 5, 7),
                                      Token("String", 8, 11)>>))
             => Wire(data) = <<<<0, 0, 4>>, <<1, 0, 2>>, <<0, 3, 3>>>>

\* C5 witness: the scenario text with its three tokens was encoded.
C5_Witness ==
    /\ Answered("full")
    /\ resp.rope = Some("scenario")
    /\ resp.tokens = Some(<<Token("Bool", 0, 4), Token("Number", 5, 7),
                            Token("String", 8, 11)>>)
    /\ Len(resp.result[1].data) = 3

\* C6: for N non-overlapping cached tokens a full request emits at most N
\* entries and no unsigned subtraction goes below zero: delta_line >= 0 and
\* delta_start >= 0 when delta_line = 0, also with a text newer than the tokens.
C6_FullNoUnderflow ==
    (Answered("full") /\ NonOverlapping(resp.tokens[1])) =>
        LET data == resp.result[1].data IN
        /\ Len(data) <= Len(resp.tokens[1])
        /\ ~resp.result[1].underflow
        /\ \A i \in 1..Len(data) :
              /\ data[i].delta_line >= 0
              /\ data[i].delta_line = 0 => data[i].delta_start >= 0

\* C6 witness: tokens of an older text were encoded against a newer text, on
\* two lines.
C6_Witness ==
    /\ Answered("full")
    /\ NonOverlapping(resp.tokens[1])
    /\ resp.tokens[1] # Lex(resp.rope[1]).tokens
    /\ \E i \in 1..Len(resp.result[1].data) : resp.result[1].data[i].delta_line > 0

\* C7: once no open or change handler of a uri is in flight, the token_map
\* entry of the uri is the classification of the text document_map holds.
C7_StaleWindowCloses ==
    \A u \in Uris :
        (Quiet(u) /\ document_map[u] # None)
            => token_map[u] = Some(Lex(document_map[u][1]).tokens)

\* C8: a token_map entry is always the complete result of one successful
\* classification of a text that document_map held for the same uri.
C8_TokensFromSuccessfulLex ==
    \A u \in Uris :
        token_map[u] # None
            => \E text \in seen[u] : Lex(text).ok /\ token_map[u] = Some(Lex(text).tokens)

\* C9: two full requests for a uri with no open, change or close segment of
\* the uri between them return the same output, whatever other requests ran.
C9_FullIdempotent ==
    (resp.kind = "full" /\ resp.prev.set /\ resp.prev.changes = 0)
        => resp.result = resp.prev.result

\* C9 witness: a second full request answered with tokens while another
\* request is in flight.
C9_Witness ==
    /\ Answered("full")
    /\ resp.prev.set
    /\ resp.prev.changes = 0
    /\ resp.result[1].data # <<>>
    /\ \E t \in BagToSet(tasks) : t.pc = "full_log"

\* C10: a full request after a completed change that carried the text already
\* stored returns what a full request returned before that change (both
\* requests answered with no open or change of the uri in flight).
C10_IdenticalChangeSameTokens ==
    (resp.kind = "full" /\ resp.quiet /\ resp.prev.set /\ resp.prev.changes > 0)
        => resp.result = resp.prev.result


----------------------------------------------------------------------------
\* the step starts, resumes or ends a handler of uri, or answers a range
\* request for uri
EventOn(uri) ==
    \/ \E t \in BagToSet(tasks) \cup BagToSet(tasks') :
          t.uri = uri /\ CopiesIn(t, tasks') # CopiesIn(t, tasks)
    \/ resp'.kind = "range" /\ resp'.uri = uri

Omitted(tokens, chars) ==
    {i \in 1..Len(tokens) :
        ~Resolves(chars, tokens[i].range.start) \/ ~HasLegend(tokens[i])}

\* C12: the full encoder omits a token whose start does not resolve in the
\* text or whose kind has no legend entry and goes on: it returns a sequence
\* with one entry for every other token, and the sequence is the one it
\* returns for the list without the omitted tokens (an omitted token does not
\* move the cursor).  For the mixed text the brace in column 4 is omitted and
\* the number after it is encoded relative to the number in column 3.
C12_OmittedTokensSkipped ==
    (resp.kind = "full" /\ resp.rope # None /\ resp.tokens # None) =>
        LET chars  == Chars(resp.rope[1])
            tokens == token_map[resp.uri][1]
        IN
        /\ resp.result # None
        /\ Len(resp.result[1].data) = Len(tokens) - Cardinality(Omitted(tokens, chars))
        /\ resp.result[1] = full_encode(KeptOf(tokens, resp.rope[1]), resp.rope[1])
        /\ (resp.rope = Some("mixed") /\ tokens = Lex("mixed").tokens)
              => Wire(resp.result[1].data)
                    = <<<<0, 0, 4>>, <<0, 3, 1>>, <<0, 2, 1>>, <<1, 6, 1>>, <<1, 0, 1>>>>

\* C12 witness: a full response for a list with a token without legend entry
\* between two emitted tokens and a token whose start lies beyond the text.
C12_Witness ==
    /\ Answered("full")
    /\ LET chars  == Chars(resp.rope[1])
           tokens == token_map[resp.uri][1]
       IN \E i, j, k, l \in 1..Len(tokens) :
             /\ i < j /\ j < k
             /\ {i, k} \cap Omitted(tokens, chars) = {}
             /\ Resolves(chars, tokens[j].range.start) /\ ~HasLegend(tokens[j])
             /\ tokens[j].range.start > tokens[i].range.start
             /\ ~Resolves(chars, tokens[l].range.start)
    /\ Len(resp.result[1].data) >= 2


----------------------------------------------------------------------------
(* A second specification for the order of the cached tokens.  The order   *)
(* in which the tokenizer leaves its tokens in lexer.tokens is not fixed   *)
(* by its interface (a TokenSet is independent of order at creation), and  *)
(* on_change stores lexer.tokens as they are.  SpecEnc runs the handlers   *)
(* of one uri with a tokenizer that may leave its tokens in another order. *)

\* token lists up to this length are stored in every order, longer ones in
\* source order or reversed
MaxPermLen == 3

InsertAt(s, k, x) == SubSeq(s, 1, k) \o <<x>> \o SubSeq(s, k + 1, Len(s))

RECURSIVE Orders(_)
Orders(s) ==
    IF s = <<>> THEN {<<>>}
    ELSE UNION {{InsertAt(p, k, Head(s)) : k \in 0..Len(p)} : p \in Orders(Tail(s))}

RECURSIVE Reverse(_)
Reverse(s) == IF s = <<>> THEN <<>> ELSE Append(Reverse(Tail(s)), Head(s))

TokenOrders(tokens) ==
    IF Len(tokens) <= MaxPermLen THEN Orders(tokens) ELSE {tokens, Reverse(tokens)}

\* the contents lexer.tokens may have after lexing each text, computed once
OrdersOfText == {<<text, TokenOrders(Lex(text).tokens)>> : text \in Texts}

LexOrders(text) == (CHOOSE e \in OrdersOfText : e[1] = text)[2]

EncUris == {"a"}

\* on_change resumes after log_message(..).await and stores lexer.tokens, in
\* the order the tokenizer left them
on_change_resume_any_order(t, tokens) ==
    /\ t \in BagToSet(tasks)
    /\ t.pc = "lex_log"
    /\ token_map' = on_change_insert_tokens(token_map, t.uri,
                        [ok |-> Lex(t.text).ok, tokens |-> tokens])
    /\ tasks' = tasks (-) One(t)
    /\ hist' = HistAfterStep(t.uri)
    /\ resp' = NoResp
    /\ UNCHANGED <<document_map, status, edits, seen>>
    /\ UNCHANGED <<shards, twin>>

NextEnc ==
    \/ \E uri \in EncUris, text \in Texts : did_open(uri, text)
    \/ \E t \in BagToSet(tasks) : did_open_resume(t)
    \/ \E uri \in EncUris, text \in Texts : did_change(uri, text)
    \/ \E t \in {x \in BagToSet(tasks) : x.pc = "lex_log"} :
          \E tokens \in LexOrders(t.text) : on_change_resume_any_order(t, tokens)
    \/ \E uri \in EncUris : semantic_tokens_full(uri)
    \/ \E t \in BagToSet(tasks) : semantic_tokens_full_resume(t)
    \/ \E uri \in EncUris, span \in Spans : semantic_tokens_range(uri, span)

SpecEnc == Init /\ [][NextEnc]_vars

\* C13: both encoders go through the cached tokens in ascending order of
\* start, whatever order the tokenizer left them in: no response of either
\* kind has an entry whose line - prevLine went below zero.
C13_BothEncodersAscending ==
    (resp.kind \in {"full", "range"} /\ resp.result # None) =>
        /\ ~resp.result[1].underflow
        /\ \A i \in 1..Len(resp.result[1].data) : resp.result[1].data[i].delta_line >= 0


\* how often each element occurs in a sequence
Occurrences(s) ==
    [x \in {s[i] : i \in 1..Len(s)} |-> Cardinality({i \in 1..Len(s) : s[i] = x})]

\* C17: a range request leaves document_map and token_map as they are; a full
\* request leaves document_map as it is and every token_map entry with the
\* same tokens, each as often as before (only their order may change).
C17_RequestsKeepStores ==
    [][/\ resp'.kind = "range" => document_map' = document_map /\ token_map' = token_map
       /\ resp'.kind = "full" =>
             /\ document_map' = document_map
             /\ \A u \in Uris :
                   IF token_map[u] = None THEN token_map'[u] = None
                   ELSE /\ token_map'[u] # None
                        /\ Occurrences(token_map'[u][1]) = Occurrences(token_map[u][1])]_vars

\* C17 witness: a full request has reordered an entry that was not sorted, and
\* a range request is now answered differently than it was before the full
\* request.
C17_Witness ==
    /\ Answered("full")
    /\ token_map[resp.uri] # resp.tokens
    /\ Occurrences(token_map[resp.uri][1]) = Occurrences(resp.tokens[1])
    /\ \E span \in Spans :
          range_closure(token_map, document_map, resp.uri, span)
              # Some(range_encode(resp.tokens[1], resp.rope[1]))


\* C14: a range request emits, for the kept tokens in cached order,
\* delta_line = line - prevLine and delta_start = col - prevCol when
\* col >= prevCol, else col, whatever the line; so for a token on a new line
\* with col >= prevCol it emits col - prevCol where a full request emits col.
C14_RangeDeltaStart ==
    Answered("range") =>
        LET kept  == KeptOf(resp.tokens[1], resp.rope[1])
            data  == resp.result[1].data
            full  == full_closure(token_map, document_map, resp.uri).result[1].data
            line(i) == IF i = 0 THEN 0 ELSE LineOf(resp.rope[1], kept[i].range.start)
            col(i)  == IF i = 0 THEN 0 ELSE ColOf(resp.rope[1], kept[i].range.start)
        IN
        /\ Len(data) = Len(kept)
        /\ Len(full) = Len(kept)
        /\ \A i \in 1..Len(kept) :
              /\ data[i].delta_line = line(i) - line(i - 1)
              /\ data[i].delta_start =
                    IF col(i) >= col(i - 1) THEN col(i) - col(i - 1) ELSE col(i)
              /\ (line(i) > line(i - 1) /\ col(i) >= col(i - 1))
                    => full[i].delta_start = col(i)

\* C14 witness: a range response with a token on a new line to the right of
\* its predecessor, for which the full encoding has another delta_start, and
\* a token to the left of its predecessor.
C14_Witness ==
    /\ Answered("range")
    /\ LET data == resp.result[1].data
           full == full_closure(token_map, document_map, resp.uri).result[1].data
       IN /\ \E i \in 1..Len(data) :
                /\ data[i].delta_line > 0
                /\ data[i].delta_start > 0
                /\ full[i].delta_start > data[i].delta_start
          /\ \E i, j \in 1..Len(data) :
                /\ j = i + 1
                /\ data[j].delta_line > 0
                /\ data[j].delta_start = 0
                /\ data[i].delta_start > 0


\* C15: within one open or change the text is stored before the tokens: the
\* text of a handler suspended between the two stores has been in
\* document_map, and a token_map entry is the token list of a text that
\* document_map has held for the uri.
C15_TextBeforeTokens ==
    /\ \A t \in BagToSet(tasks) : t.pc = "lex_log" => t.text \in seen[t.uri]
    /\ \A u \in Uris :
          token_map[u] # None
              => \E text \in seen[u] : token_map[u] = Some(Lex(text).tokens)

\* C15 witness: a full request is answered while a change of the uri is
\* suspended between its two stores: the text is the new one, the tokens
\* encoded are those of the text before.
C15_Witness ==
    /\ Answered("full")
    /\ ~resp.quiet
    /\ resp.tokens[1] # Lex(resp.rope[1]).tokens
    /\ \E t \in BagToSet(tasks) :
          /\ t.pc = "lex_log"
          /\ t.uri = resp.uri
          /\ Some(t.text) = resp.rope
          /\ document_map[t.uri] = Some(t.text)
    /\ \E text \in seen[resp.uri] \ {resp.rope[1]} :
          resp.tokens = Some(Lex(text).tokens)


\* the positions a client decodes from entries i.. of a sequence, the entry
\* before them decoded to (line, col)
RECURSIVE Decode(_, _, _, _)
Decode(data, i, line, col) ==
    IF i > Len(data) THEN <<>>
    ELSE LET l == line + data[i].delta_line
             c == IF data[i].delta_line = 0 THEN col + data[i].delta_start
                  ELSE data[i].delta_start
         IN <<(<<l, c>>)>> \o Decode(data, i + 1, l, c)

\* C19: decoding a full response from (0, 0) by the wire rule (line = prevLine
\* + deltaLine; col = prevCol + deltaStart when deltaLine = 0, else
\* deltaStart) yields the (line, col) of the start of every kept token, in
\* order.
C19_FullRoundTrip ==
    Answered("full") =>
        LET kept == KeptOf(token_map[resp.uri][1], resp.rope[1])
            decoded == Decode(resp.result[1].data, 1, 0, 0)
        IN
        /\ Len(decoded) = Len(kept)
        /\ \A i \in 1..Len(kept) :
              decoded[i] = <<LineOf(resp.rope[1], kept[i].range.start),
                             ColOf(resp.rope[1], kept[i].range.start)>>

\* C19 witness: a full response decoded to a token in a column other than 0
\* behind another on its line, and to a token on a later line in a column
\* other than 0.
C19_Witness ==
    /\ Answered("full")
    /\ LET data == resp.result[1].data
           decoded == Decode(data, 1, 0, 0)
       IN /\ \E i \in 2..Len(data) :
                /\ data[i].delta_line = 0
                /\ data[i].delta_start > 0
                /\ decoded[i][2] > data[i].delta_start
          /\ \E i \in 2..Len(data) :
                /\ data[i].delta_line > 0
                /\ decoded[i - 1][2] > 0
                /\ decoded[i][2] > 0


----------------------------------------------------------------------------
(* A third specification, for the locks.  A DashMap is an array of shards, *)
(* each behind one RwLock; get takes the read lock of the key's shard,     *)
(* get_mut and insert its write lock, and the guard get/get_mut return     *)
(* holds the lock until it is dropped.  LockSpec runs the handlers on      *)
(* parallel workers, one step per lock operation; two uris hash to the     *)
(* same shard of a map or to different ones.  In LockSpec edits counts     *)
(* every notification and request accepted.                                *)

Shards == {0, 1}

\* mutant of LocksHeld: on_change keeps the guard of its document_map entry
\* (document_map.entry(uri)) alive until it returns
LocksHeld_text_guard_kept(pc) ==
    CASE pc \in {"text_insert", "lex_log", "tokens_lock"}
                               -> {<<"document_map", "write">>}
      [] pc = "tokens_insert"  -> {<<"document_map", "write">>, <<"token_map", "write">>}
      [] pc = "full_text_lock" -> {<<"token_map", "write">>}
      [] pc = "full_encode"    -> {<<"token_map", "write">>, <<"document_map", "read">>}
      [] pc = "range_text_lock" -> {<<"token_map", "read">>}
      [] pc = "range_encode"   -> {<<"token_map", "read">>, <<"document_map", "read">>}
      [] OTHER                 -> {}

\* the locks a handler holds at pc, as <<map, mode>>
LocksHeld(pc) ==
    CASE pc = "text_insert"    -> {<<"document_map", "write">>}
      [] pc = "tokens_insert"  -> {<<"token_map", "write">>}
      [] pc = "full_text_lock" -> {<<"token_map", "write">>}
      [] pc = "full_encode"    -> {<<"token_map", "write">>, <<"document_map", "read">>}
      [] pc = "range_text_lock" -> {<<"token_map", "read">>}
      [] pc = "range_encode"   -> {<<"token_map", "read">>, <<"document_map", "read">>}
      [] OTHER                 -> {}

\* the lock a handler at pc is about to take, as <<map, mode>>
LockWanted(pc) ==
    CASE pc = "text_lock"         -> <<"document_map", "write">>
      [] pc = "tokens_lock"       -> <<"token_map", "write">>
      [] pc = "full_tokens_lock"  -> <<"token_map", "write">>
      [] pc = "full_text_lock"    -> <<"document_map", "read">>
      [] pc = "range_tokens_lock" -> <<"token_map", "read">>
      [] pc = "range_text_lock"   -> <<"document_map", "read">>

LockPcs ==
    {"text_lock", "tokens_lock", "full_tokens_lock", "full_text_lock",
     "range_tokens_lock", "range_text_lock"}

\* the handler is suspended at an .await
AwaitPcs == {"open_log", "lex_log", "full_log"}

\* the handler is inside a DashMap call or holds the guards of its closure
HoldPcs == {"text_insert", "tokens_insert", "full_encode", "range_encode"}

\* the RwLock of the shard of uri in map admits a guard of the mode
CanLock(map, uri, mode) ==
    \A t \in BagToSet(tasks) :
        \A held \in LocksHeld(t.pc) :
            (held[1] = map /\ shards[t.uri] = shards[uri])
                => (mode = "read" /\ held[2] = "read")

\* the handler t can take its next step
CanStep(t) ==
    t.pc \in LockPcs => CanLock(LockWanted(t.pc)[1], t.uri, LockWanted(t.pc)[2])

InitLock ==
    /\ document_map = [u \in Uris |-> None]
    /\ token_map = [u \in Uris |-> None]
    /\ tasks = EmptyBag
    /\ status = [u \in Uris |-> "new"]
    /\ edits = 0
    /\ seen = [u \in Uris |-> {}]
    /\ hist = [u \in Uris |-> NoHist]
    /\ resp = NoResp
    /\ shards \in [Uris -> Shards]
    /\ twin = NoTwin

\* a notification or request arrives and its handler runs up to its first
\* .await or lock operation
lk_start(pc, uri, text) ==
    /\ edits < MaxEdits
    /\ BagCardinality(tasks) < MaxTasks
    /\ tasks' = tasks (+) One(Task(pc, uri, text))
    /\ edits' = edits + 1
    /\ UNCHANGED <<document_map, token_map, seen, hist, resp, shards, twin>>

lk_did_open(uri, text) ==
    /\ status[uri] # "open"
    /\ status' = [status EXCEPT ![uri] = "open"]
    /\ lk_start("open_log", uri, text)

lk_did_change(uri, text) ==
    /\ status[uri] = "open"
    /\ UNCHANGED status
    /\ lk_start("text_lock", uri, text)

lk_semantic_tokens_full(uri) ==
    /\ UNCHANGED status
    /\ lk_start("full_log", uri, "")

lk_semantic_tokens_range(uri) ==
    /\ UNCHANGED status
    /\ lk_start("range_tokens_lock", uri, "")

\* a handler suspended at log_message(..).await resumes and runs up to its
\* next lock operation
lk_resume(t) ==
    /\ t \in BagToSet(tasks)
    /\ t.pc \in AwaitPcs
    /\ LET pc == CASE t.pc = "open_log" -> "text_lock"
                    [] t.pc = "lex_log"  -> "tokens_lock"
                    [] t.pc = "full_log" -> "full_tokens_lock"
       IN tasks' = (tasks (-) One(t)) (+) One(Task(pc, t.uri, t.text))
    /\ UNCHANGED <<document_map, token_map, status, edits, seen, hist, resp, shards, twin>>

\* a handler takes the lock it waits for; get and get_mut give the lock back
\* at once when the map has no entry for the uri, and the closure returns None
lk_acquire(t) ==
    /\ t \in BagToSet(tasks)
    /\ t.pc \in LockPcs
    /\ CanStep(t)
    /\ LET pc == CASE t.pc = "text_lock"   -> "text_insert"
                    [] t.pc = "tokens_lock" -> "tokens_insert"
                    [] t.pc = "full_tokens_lock" ->
                          IF token_map[t.uri] = None THEN "done" ELSE "full_text_lock"
                    [] t.pc = "full_text_lock" ->
                          IF document_map[t.uri] = None THEN "done" ELSE "full_encode"
                    [] t.pc = "range_tokens_lock" ->
                          IF token_map[t.uri] = None THEN "done" ELSE "range_text_lock"
                    [] t.pc = "range_text_lock" ->
                          IF document_map[t.uri] = None THEN "done" ELSE "range_encode"
       IN tasks' = IF pc = "done" THEN tasks (-) One(t)
                   ELSE (tasks (-) One(t)) (+) One(Task(pc, t.uri, t.text))
    /\ UNCHANGED <<document_map, token_map, status, edits, seen, hist, resp, shards, twin>>

\* a handler that holds its locks does its work on the maps and drops them
lk_release(t) ==
    /\ t \in BagToSet(tasks)
    /\ t.pc \in HoldPcs
    /\ document_map' = IF t.pc = "text_insert"
                       THEN on_change_insert_text(document_map, t.uri, t.text)
                       ELSE document_map
    /\ token_map' =
          CASE t.pc = "tokens_insert" ->
                  on_change_insert_tokens(token_map, t.uri, Lex(t.text))
            [] t.pc = "full_encode" -> full_closure(token_map, document_map, t.uri).token_map
            [] OTHER -> token_map
    /\ tasks' = IF t.pc = "text_insert"
                THEN (tasks (-) One(t)) (+) One(Task("lex_log", t.uri, t.text))
                ELSE tasks (-) One(t)
    /\ UNCHANGED <<status, edits, seen, hist, resp, shards, twin>>

LockTexts == {"scenario", "fail"}

NextLock ==
    \/ \E uri \in Uris, text \in LockTexts : lk_did_open(uri, text)
    \/ \E uri \in Uris, text \in LockTexts : lk_did_change(uri, text)
    \/ \E uri \in Uris : lk_semantic_tokens_full(uri)
    \/ \E uri \in Uris : lk_semantic_tokens_range(uri)
    \/ \E t \in BagToSet(tasks) : lk_resume(t)
    \/ \E t \in BagToSet(tasks) : lk_acquire(t)
    \/ \E t \in BagToSet(tasks) : lk_release(t)

\* some handler in flight takes a step
LockStep == \E t \in BagToSet(tasks) : lk_resume(t) \/ lk_acquire(t) \/ lk_release(t)

\* the runtime keeps polling the futures that can go on
LockSpec == InitLock /\ [][NextLock]_vars /\ WF_vars(LockStep)

\* C18: no interleaving of handlers deadlocks.  A handler holds no lock at an
\* .await; a handler that waits for a lock while it holds one is a request
\* handler that holds the token_map lock and waits for the document_map
\* lock; whenever handlers are in flight one of them can take a step; and
\* every handler started completes.
C18_NoDeadlock ==
    /\ [](\A t \in BagToSet(tasks) :
            /\ t.pc \in AwaitPcs => LocksHeld(t.pc) = {}
            /\ (t.pc \in LockPcs /\ LocksHeld(t.pc) # {})
                  => /\ t.pc \in {"full_text_lock", "range_text_lock"}
                     /\ LockWanted(t.pc)[1] = "document_map"
                     /\ \A held \in LocksHeld(t.pc) : held[1] = "token_map")
    /\ [](tasks # EmptyBag => \E t \in BagToSet(tasks) : CanStep(t))
    /\ (tasks # EmptyBag) ~> (tasks = EmptyBag)

\* C18 witness: a full request holds the write lock of its token_map shard and
\* waits for the read lock of the document_map shard, which an on_change
\* holds for its insert.
C18_Witness ==
    \E t1, t2 \in BagToSet(tasks) :
        /\ t1.pc = "full_text_lock"
        /\ t2.pc = "text_insert"
        /\ shards[t1.uri] = shards[t2.uri]
        /\ ~CanStep(t1)


----------------------------------------------------------------------------
(* A fourth specification, for params.version.  SpecVer runs the handlers  *)
(* of one uri twice in lockstep: the first run on document_map and         *)
(* token_map, the second on twin; both get the same events in the same     *)
(* interleaving, and every open and change carries one version in the      *)
(* first run and another in the second.                                    *)

Versions == {1, 2}

VerUris == {"a"}

TextDocumentItem(uri, text, version) == [uri |-> uri, text |-> text, version |-> version]

VerTask(pc, uri, text, version, version2) ==
    [pc |-> pc, uri |-> uri, text |-> text, version |-> version, version2 |-> version2]

\* mutant of on_change_text: a document whose version is below 2 is not stored
on_change_text_if_newer(dm, params) ==
    IF params.version < 2 THEN dm
    ELSE on_change_insert_text(dm, params.uri, params.text)

\* on_change(params) up to its .await
on_change_text(dm, params) == on_change_insert_text(dm, params.uri, params.text)

\* on_change(params) after its .await
on_change_tokens(tm, params) ==
    on_change_insert_tokens(tm, params.uri, Lex(params.text))

Highest(a, b) == IF a > b THEN a ELSE b

ver_did_open(uri, text, version, version2) ==
    /\ status[uri] # "open"
    /\ edits < MaxEdits
    /\ BagCardinality(tasks) < MaxTasks
    /\ tasks' = tasks (+) One(VerTask("open_log", uri, text, version, version2))
    /\ status' = [status EXCEPT ![uri] = "open"]
    /\ edits' = edits + 1
    /\ resp' = NoResp
    /\ twin' = [twin EXCEPT !.result = None,
                            !.versions[uri].high = Highest(@, version)]
    /\ UNCHANGED <<document_map, token_map, seen, hist, shards>>

ver_did_open_resume(t) ==
    /\ t \in BagToSet(tasks)
    /\ t.pc = "open_log"
    /\ document_map' =
          on_change_text(document_map, TextDocumentItem(t.uri, t.text, t.version))
    /\ twin' = [twin EXCEPT
                   !.document_map =
                       on_change_text(@, TextDocumentItem(t.uri, t.text, t.version2)),
                   !.result = None,
                   !.versions[t.uri].text = t.version]
    /\ tasks' = (tasks (-) One(t))
                    (+) One(VerTask("lex_log", t.uri, t.text, t.version, t.version2))
    /\ resp' = NoResp
    /\ UNCHANGED <<token_map, status, edits, seen, hist, shards>>

ver_did_change(uri, text, version, version2) ==
    /\ status[uri] = "open"
    /\ edits < MaxEdits
    /\ BagCardinality(tasks) < MaxTasks
    /\ document_map' =
          on_change_text(document_map, TextDocumentItem(uri, text, version))
    /\ twin' = [twin EXCEPT
                   !.document_map =
                       on_change_text(@, TextDocumentItem(uri, text, version2)),
                   !.result = None,
                   !.versions[uri].high = Highest(@, version),
                   !.versions[uri].text = version]
    /\ tasks' = tasks (+) One(VerTask("lex_log", uri, text, version, version2))
    /\ edits' = edits + 1
    /\ resp' = NoResp
    /\ UNCHANGED <<token_map, status, seen, hist, shards>>

ver_on_change_resume(t) ==
    /\ t \in BagToSet(tasks)
    /\ t.pc = "lex_log"
    /\ token_map' =
          on_change_tokens(token_map, TextDocumentItem(t.uri, t.text, t.version))
    /\ twin' = [twin EXCEPT
                   !.token_map =
                       on_change_tokens(@, TextDocumentItem(t.uri, t.text, t.version2)),
                   !.result = None,
                   !.versions[t.uri].tokens = t.version]
    /\ tasks' = tasks (-) One(t)
    /\ resp' = NoResp
    /\ UNCHANGED <<document_map, status, edits, seen, hist, shards>>

ver_semantic_tokens_full(uri) ==
    /\ BagCardinality(tasks) < MaxTasks
    /\ tasks' = tasks (+) One(VerTask("full_log", uri, "", 0, 0))
    /\ resp' = NoResp
    /\ twin' = [twin EXCEPT !.result = None]
    /\ UNCHANGED <<document_map, token_map, status, edits, seen, hist, shards>>

ver_semantic_tokens_full_resume(t) ==
    /\ t \in BagToSet(tasks)
    /\ t.pc = "full_log"
    /\ LET out  == full_closure(token_map, document_map, t.uri)
           out2 == full_closure(twin.token_map, twin.document_map, t.uri)
       IN /\ token_map' = out.token_map
          /\ resp' = [kind |-> "full", uri |-> t.uri, span |-> <<0, 0>>,
                      result |-> out.result,
                      rope |-> document_map[t.uri], tokens |-> token_map[t.uri],
                      prev |-> NoHist, quiet |-> Quiet(t.uri)]
          /\ twin' = [twin EXCEPT !.token_map = out2.token_map,
                                  !.result = out2.result]
    /\ tasks' = tasks (-) One(t)
    /\ UNCHANGED <<document_map, status, edits, seen, hist, shards>>

ver_semantic_tokens_range(uri, span) ==
    /\ resp' = [kind |-> "range", uri |-> uri, span |-> span,
                result |-> range_closure(token_map, document_map, uri, span),
                rope |-> document_map[uri], tokens |-> token_map[uri],
                prev |-> NoHist, quiet |-> Quiet(uri)]
    /\ twin' = [twin EXCEPT
                   !.result = range_closure(twin.token_map, twin.document_map, uri, span)]
    /\ UNCHANGED <<document_map, token_map, tasks, status, edits, seen, hist, shards>>

NextVer ==
    \/ \E uri \in VerUris, text \in Texts, version, version2 \in Versions :
          ver_did_open(uri, text, version, version2)
    \/ \E t \in BagToSet(tasks) : ver_did_open_resume(t)
    \/ \E uri \in VerUris, text \in Texts, version, version2 \in Versions :
          ver_did_change(uri, text, version, version2)
    \/ \E t \in BagToSet(tasks) : ver_on_change_resume(t)
    \/ \E uri \in VerUris : ver_semantic_tokens_full(uri)
    \/ \E t \in BagToSet(tasks) : ver_semantic_tokens_full_resume(t)
    \/ \E uri \in VerUris, span \in Spans : ver_semantic_tokens_range(uri, span)

SpecVer == Init /\ [][NextVer]_vars

\* C16: params.version has no influence.  Two runs fed the same events in
\* the same interleaving, with other versions, hold the same document_map
\* and token_map after every step and answer every request alike; and a
\* change replaces the text, and then the tokens, whatever its version is
\* and whatever versions came before.
C16_VersionIgnored ==
    /\ [](/\ twin.document_map = document_map
          /\ twin.token_map = token_map
          /\ resp.kind # "none" => twin.result = resp.result)
    /\ [][/\ \A uri \in VerUris, text \in Texts, version, version2 \in Versions :
                ver_did_change(uri, text, version, version2)
                    => document_map'[uri] = Some(text)
          /\ \A t \in BagToSet(tasks) :
                ver_on_change_resume(t)
                    => token_map'[t.uri] = Some(Lex(t.text).tokens)]_vars

\* C16 witness: after an event with version 2, a change with version 1 has
\* replaced the text and the tokens, no handler is in flight, and a request
\* is answered with tokens, in both runs.
C16_Witness ==
    /\ twin.versions["a"] = [high |-> 2, text |-> 1, tokens |-> 1]
    /\ tasks = EmptyBag
    /\ document_map["a"] = Some("mixed")
    /\ token_map["a"] = Some(Lex("mixed").tokens)
    /\ resp.kind = "range"
    /\ resp.result # None
    /\ twin.result = resp.result

====
